---- MODULE Spec2Model ----
(***************************************************************************)
(* The resource-thread manager of components/net/resource_thread.rs:       *)
(* the dispatch loop of ResourceChannelManager over the public and the     *)
(* private channel, the two ResourceGroups, the cancellation registry,     *)
(* the fetch / websocket workers that share a group's caches, and the      *)
(* JSON persistence of the caches at startup and at Exit.                  *)
(***************************************************************************)
EXTENDS Integers, Sequences, FiniteSets, TLC

\* ------------------------------------------------------------- bounds
\* The data the clients send over both channels, to all managers together,
\* when they send every variant of message.
MaxSent == 2
\* The same, when they send cookie messages or cancellations alone.
MaxRequests == 3

\* ---------------------------------------------------------- constants
\* rx_set.add(private_receiver) is the first receiver added, public the second.
private_id == 0
public_id == 1
\* CookieStorage::new(150)
MaxCookies == 150
\* AuthCache::new(): version 1
AuthVersion == 1

Group == {"public", "private"}
Field == {"auth_cache", "cookie_jar", "hsts_list"}
File == {"auth_cache.json", "cookie_jar.json", "hsts_list.json"}

Urls == {"a.test", "b.test"}
HTTP == "HTTP"
NonHTTP == "NonHTTP"

None == [none |-> TRUE]
Some(x) == [none |-> FALSE, val |-> x]

\* ------------------------------------------------------------ cookies
\* A raw Set-Cookie header value is a sequence of text tokens: the first
\* is name=value, the others are attributes.
Pair(n, v) == <<"pair", n, v>>
AttrHttpOnly == <<"attr", "HttpOnly", "">>
AttrDomain(d) == <<"attr", "Domain", d>>

\* A cookie as the header parser produces it (cookie_rs::Cookie).
BareCookie(n, v, d, h) == [name |-> n, value |-> v, domain |-> d, httponly |-> h]

RECURSIVE ApplyAttrs(_, _)
ApplyAttrs(c, toks) ==
    IF toks = <<>> THEN c
    ELSE LET t == Head(toks)
             c1 == IF t[2] = "HttpOnly" THEN [c EXCEPT !.httponly = TRUE]
                   ELSE IF t[2] = "Domain" THEN [c EXCEPT !.domain = t[3]]
                   ELSE c
         IN ApplyAttrs(c1, Tail(toks))

\* Header::parse_header(&[cookie_list.into_bytes()]) for SetCookie: one raw
\* line gives one cookie; a line with no name=value pair is an error.
parse_header(raw) ==
    IF raw = <<>> \/ Head(raw)[1] # "pair" \/ Head(raw)[2] = ""
    THEN [ok |-> FALSE, cookies |-> <<>>]
    ELSE [ok |-> TRUE,
          cookies |-> <<ApplyAttrs(BareCookie(Head(raw)[2], Head(raw)[3], "", FALSE),
                                   Tail(raw))>>]

\* cookie::Cookie::new_wrapped(cookie, &request, source): the validation of a
\* cookie against the url and the source. An HttpOnly cookie from a non-HTTP
\* source is rejected, a Domain attribute that is not the request host is
\* rejected, and a cookie with no Domain attribute is bound to the host.
new_wrapped(bare, request, source) ==
    IF bare.httponly /\ source = NonHTTP THEN None
    ELSE IF bare.domain # "" /\ bare.domain # request THEN None
    ELSE Some([bare EXCEPT !.domain = request])

\* CookieStorage: the stored cookies; at most MaxCookies of them.
NewCookieStorage == {}

SameKey(c, d) == c.name = d.name /\ c.domain = d.domain

\* CookieStorage::push(cookie, source): insert or update. A cookie with the
\* same name and domain is replaced; at capacity one stored cookie is evicted
\* (which one is the collaborator's policy). The set of possible results.
push(jar, cookie, source) ==
    LET kept == {c \in jar : ~SameKey(c, cookie)}
    IN IF Cardinality(kept) >= MaxCookies
       THEN {(kept \ {e}) \cup {cookie} : e \in kept}
       ELSE {kept \cup {cookie}}

\* The stored cookies a request to url from source may see.
Visible(jar, url, source) ==
    {c \in jar : c.domain = url /\ (c.httponly => source = HTTP)}

\* CookieStorage::cookies_for_url(&url, source): the Cookie header value, the
\* name=value pairs of the visible cookies, or None when there are none.
cookies_for_url(jar, url, source) ==
    IF Visible(jar, url, source) = {} THEN None
    ELSE Some({Pair(c.name, c.value) : c \in Visible(jar, url, source)})

\* CookieStorage::cookies_data_for_url(&url, source): the visible cookies.
cookies_data_for_url(jar, url, source) == Visible(jar, url, source)

\* ------------------------------------------------- auth cache and HSTS
\* AuthCache::new()
NoEntries == [k \in {} |-> None]
NewAuthCache == [version |-> AuthVersion, entries |-> NoEntries]

\* HstsList::new() and HstsList::from_servo_preload()
NewHstsList == {}
from_servo_preload == {"preload.test"}

\* AuthCacheEntry { user_name, password }
AuthCacheEntry(u, p) == [user_name |-> u, password |-> p]

\* ---------------------------------------------------------------- JSON
\* A JSON text is a sequence of tokens. An object is written as its field
\* names and values between braces, a collection as its rows between
\* brackets, each row between braces.
RECURSIVE SetToSeq(_)
SetToSeq(S) ==
    IF S = {} THEN <<>>
    ELSE LET x == CHOOSE y \in S : TRUE IN <<x>> \o SetToSeq(S \ {x})

RECURSIVE Flatten(_)
Flatten(rows) ==
    IF rows = <<>> THEN <<>>
    ELSE <<"{">> \o Head(rows) \o <<"}">> \o Flatten(Tail(rows))

EncodeRows(rows) == <<"[">> \o Flatten(SetToSeq(rows)) \o <<"]">>

BoolText(b) == IF b THEN "true" ELSE "false"

\* The rows of width w written in toks, or an error when toks is not a
\* sequence of braced rows of that width.
RECURSIVE ParseRows(_, _)
ParseRows(toks, w) ==
    IF toks = <<>> THEN [ok |-> TRUE, rows |-> {}]
    ELSE IF Len(toks) < w + 2 \/ toks[1] # "{" \/ toks[w + 2] # "}"
         THEN [ok |-> FALSE, rows |-> {}]
    ELSE LET rest == ParseRows(SubSeq(toks, w + 3, Len(toks)), w)
         IN [ok |-> rest.ok, rows |-> {SubSeq(toks, 2, w + 1)} \cup rest.rows]

\* The rows of an object text whose first tokens are head, or an error.
DecodeRows(text, head, w) ==
    LET h == Len(head) IN
    IF Len(text) < h + 4
       \/ text[1] # "{" \/ SubSeq(text, 2, h + 1) # head \/ text[h + 2] # "["
       \/ text[Len(text) - 1] # "]" \/ text[Len(text)] # "}"
    THEN [ok |-> FALSE, rows |-> {}]
    ELSE ParseRows(SubSeq(text, h + 3, Len(text) - 2), w)

\* #[derive(RustcEncodable)] AuthCache { version, entries }
AuthHead(a) == <<"version", ToString(a.version), "entries">>
EncodeAuthCache(a) ==
    <<"{">> \o AuthHead(a)
    \o EncodeRows({<<k, a.entries[k].user_name, a.entries[k].password>> :
                     k \in DOMAIN a.entries})
    \o <<"}">>

\* #[derive(RustcDecodable)] AuthCache: the decoded cache, or an error.
DecodeAuthCache(text) ==
    LET r == DecodeRows(text, AuthHead(NewAuthCache), 3)
        keys == {row[1] : row \in r.rows}
    IN IF ~r.ok THEN [ok |-> FALSE, data |-> NewAuthCache]
       ELSE [ok |-> TRUE,
             data |-> [version |-> AuthVersion,
                       entries |-> [k \in keys |->
                           LET row == CHOOSE x \in r.rows : x[1] = k
                           IN AuthCacheEntry(row[2], row[3])]]]

\* The serialization of a CookieStorage { version, cookies_map, max_per_host }.
JarHead == <<"version", "1", "max_per_host", ToString(MaxCookies), "cookies_map">>
EncodeCookieStorage(jar) ==
    <<"{">> \o JarHead
    \o EncodeRows({<<c.name, c.value, c.domain, BoolText(c.httponly)>> : c \in jar})
    \o <<"}">>

DecodeCookieStorage(text) ==
    LET r == DecodeRows(text, JarHead, 4)
    IN IF ~r.ok \/ \E row \in r.rows : row[4] \notin {"true", "false"}
       THEN [ok |-> FALSE, data |-> NewCookieStorage]
       ELSE [ok |-> TRUE,
             data |-> {BareCookie(row[1], row[2], row[3], row[4] = "true") :
                         row \in r.rows}]

\* The serialization of an HstsList { entries_map }.
HstsHead == <<"entries_map">>
EncodeHstsList(h) ==
    <<"{">> \o HstsHead \o EncodeRows({<<host>> : host \in h}) \o <<"}">>

DecodeHstsList(text) ==
    LET r == DecodeRows(text, HstsHead, 1)
    IN IF ~r.ok THEN [ok |-> FALSE, data |-> NewHstsList]
       ELSE [ok |-> TRUE, data |-> {row[1] : row \in r.rows}]

\* ------------------------------------------------------------ messages
\* CoreResourceMsg, and a datum that does not deserialize into one.
Fetch == [type |-> "Fetch"]
WebsocketConnect == [type |-> "WebsocketConnect"]
SetCookiesForUrl(u, raw, src) ==
    [type |-> "SetCookiesForUrl", url |-> u, cookie_list |-> raw, source |-> src]
SetCookiesForUrlWithData(u, c, src) ==
    [type |-> "SetCookiesForUrlWithData", url |-> u, cookie |-> c, source |-> src]
GetCookiesForUrl(u, src) == [type |-> "GetCookiesForUrl", url |-> u, source |-> src]
GetCookiesDataForUrl(u, src) ==
    [type |-> "GetCookiesDataForUrl", url |-> u, source |-> src]
NetworkMediator(m) == [type |-> "NetworkMediator", mediator |-> m]
Cancel(id) == [type |-> "Cancel", res_id |-> id]
Synchronize == [type |-> "Synchronize"]
ToFileManager == [type |-> "ToFileManager"]
Exit == [type |-> "Exit"]
Undecodable == [type |-> "Undecodable"]

ResourceIds == {"r1", "r2"}

\* The messages the clients send: one of each variant.
Msgs ==
    { Fetch, WebsocketConnect,
      SetCookiesForUrl("a.test", <<Pair("id", "42")>>, HTTP),
      SetCookiesForUrlWithData("a.test", BareCookie("tok", "1", "", TRUE), HTTP),
      GetCookiesForUrl("a.test", HTTP),
      GetCookiesDataForUrl("a.test", HTTP),
      NetworkMediator("sw"), Cancel("r1"), Synchronize, ToFileManager, Exit,
      Undecodable }

\* The cookie messages, accepted and rejected ones.
CookieMsgs ==
    { SetCookiesForUrl("a.test", <<Pair("id", "42")>>, HTTP),
      SetCookiesForUrl("a.test", <<Pair("id", "43")>>, NonHTTP),
      SetCookiesForUrl("a.test", <<Pair("sid", "7"), AttrHttpOnly>>, NonHTTP),
      SetCookiesForUrl("a.test", <<Pair("id", "9"), AttrDomain("b.test")>>, HTTP),
      SetCookiesForUrl("a.test", <<>>, HTTP),
      SetCookiesForUrlWithData("a.test", BareCookie("tok", "1", "", TRUE), HTTP),
      SetCookiesForUrlWithData("a.test", BareCookie("tok", "2", "", TRUE), NonHTTP),
      GetCookiesForUrl("a.test", HTTP),
      GetCookiesForUrl("a.test", NonHTTP),
      GetCookiesForUrl("b.test", HTTP),
      GetCookiesDataForUrl("a.test", HTTP) }

\* The cancellations, and a barrier.
CancelMsgs == {Cancel(id) : id \in ResourceIds} \cup {Synchronize}

\* data.to(): the deserialized message, or an error.
to(data) ==
    IF data.type = "Undecodable" THEN [ok |-> FALSE, msg |-> data]
    ELSE [ok |-> TRUE, msg |-> data]

\* ---------------------------------------------------------------- disk
NoFile == [exists |-> FALSE, readable |-> FALSE, text |-> <<>>]
FileOf(text) == [exists |-> TRUE, readable |-> TRUE, text |-> text]
EmptyDisk == [f \in File |-> NoFile]

read_json_keeps_default(data, file, decoded) ==
    [panic |-> file.exists /\ ~file.readable, data |-> data]

\* read_json_from_file(&mut data, config_dir, filename): data is left as it
\* is when the file cannot be opened or decoded and replaced by the decoded
\* value otherwise; a file that opens and cannot be read panics.
read_json_from_file(data, file, decoded) ==
    IF ~file.exists THEN [panic |-> FALSE, data |-> data]
    ELSE IF ~file.readable THEN [panic |-> TRUE, data |-> data]
    ELSE IF decoded.ok THEN [panic |-> FALSE, data |-> decoded.data]
    ELSE [panic |-> FALSE, data |-> data]

\* create_resource_groups(config_dir): the caches of the public and of the
\* private group, and whether reading a file panicked.
create_resource_groups(dir, files) ==
    LET a == IF dir THEN read_json_from_file(NewAuthCache, files["auth_cache.json"],
                             DecodeAuthCache(files["auth_cache.json"].text))
             ELSE [panic |-> FALSE, data |-> NewAuthCache]
        h == IF dir THEN read_json_from_file(from_servo_preload, files["hsts_list.json"],
                             DecodeHstsList(files["hsts_list.json"].text))
             ELSE [panic |-> FALSE, data |-> from_servo_preload]
        j == IF dir THEN read_json_from_file(NewCookieStorage, files["cookie_jar.json"],
                             DecodeCookieStorage(files["cookie_jar.json"].text))
             ELSE [panic |-> FALSE, data |-> NewCookieStorage]
    IN [panic |-> a.panic \/ h.panic \/ j.panic,
        cookie_jar |-> [g \in Group |-> IF g = "public" THEN j.data ELSE NewCookieStorage],
        auth_cache |-> [g \in Group |-> IF g = "public" THEN a.data ELSE NewAuthCache],
        hsts_list |-> [g \in Group |-> IF g = "public" THEN h.data ELSE NewHstsList]]

\* --------------------------------------------------------------- state
VARIABLES
    config_dir,       \* ResourceChannelManager.config_dir is Some
    disk,             \* the files of the configuration directory
    status,           \* the manager thread: Running, Stopped or Panicked
    panic_cause,      \* what the manager thread panicked on
    chan,             \* per channel, the data sent and not yet received
    batch,            \* the events of the last select() not yet handled
    cookie_jar,       \* per group
    auth_cache,       \* per group
    hsts_list,        \* per group
    poisoned,         \* the locks <<group, field>> a panic has poisoned
    cancel_load_map,  \* CoreResourceManager.cancel_load_map: the registered ids
    swmanager_chan,   \* CoreResourceManager.swmanager_chan
    workers,          \* the fetch and websocket threads running
    replies,          \* the manager's sends on reply channels, in order
    signals,          \* the cancellation signals sent, in order
    exit_pc,          \* where the Exit handler is: idle, a file name, or ack
    session,          \* the number of this manager on the directory
    spent,            \* the data the clients sent to all managers so far
    n_sent,           \* per channel, the data sent so far
    n_done,           \* per channel, the data whose handling has ended
    set_by,           \* per channel, the cookies stored on its behalf
    held,             \* the locks <<group, field>> the manager thread holds
    saved             \* per file, what the last Exit to reach it did

vars == <<config_dir, disk, status, panic_cause, chan, batch, cookie_jar,
          auth_cache, hsts_list, poisoned, cancel_load_map, swmanager_chan,
          workers, replies, signals, exit_pc, session, spent, n_sent,
          n_done, set_by, held, saved>>

caches == <<cookie_jar, auth_cache, hsts_list>>
manager == <<cancel_load_map, swmanager_chan>>

\* The channel an id of the receiver set stands for.
ChannelOf(id) == IF id = private_id THEN "private" ELSE "public"
IdOf(c) == IF c = "private" THEN private_id ELSE public_id

GroupForPublic(id) == "public"
GroupForSwapped(id) == IF id = public_id THEN "private" ELSE "public"

\* start(): the group a received id selects.
GroupFor(id) == IF id = private_id THEN "private" ELSE "public"

NotSaved == [outcome |-> "none"]
\* What an Exit of session n for group g did with a file: it wrote data, or
\* skipped the file on a poisoned lock or on an encoding error.
Outcome(o, g, n, data) == [outcome |-> o, group |-> g, session |-> n, data |-> data]

\* The state a new manager starts in on the directory's files.
Started(dir, files, map) ==
    LET groups == create_resource_groups(dir, files) IN
    /\ config_dir = dir
    /\ disk = files
    /\ status = IF groups.panic THEN "Panicked" ELSE "Running"
    /\ panic_cause = IF groups.panic THEN "read_file" ELSE "none"
    /\ chan = [c \in Group |-> <<>>]
    /\ batch = <<>>
    /\ cookie_jar = groups.cookie_jar
    /\ auth_cache = groups.auth_cache
    /\ hsts_list = groups.hsts_list
    /\ poisoned = {}
    /\ cancel_load_map = map
    /\ swmanager_chan = None
    /\ workers = {}
    /\ replies = <<>>
    /\ signals = <<>>
    /\ exit_pc = "idle"
    /\ session = 1
    /\ spent = 0
    /\ n_sent = [c \in Group |-> 0]
    /\ n_done = [c \in Group |-> 0]
    /\ set_by = groups.cookie_jar
    /\ held = {}

\* new_core_resource_thread on a fresh directory, or with none.
Init ==
    /\ \E dir \in BOOLEAN : Started(dir, EmptyDisk, {})
    /\ saved = [f \in File |-> NotSaved]

\* A client sends m on channel c.
SendMsg(c, m, bound) ==
    /\ status = "Running"
    /\ spent < bound
    /\ spent' = spent + 1
    /\ n_sent' = [n_sent EXCEPT ![c] = @ + 1]
    /\ chan' = [chan EXCEPT ![c] = Append(@, [seq |-> n_sent[c] + 1, body |-> m])]
    /\ UNCHANGED <<config_dir, disk, status, panic_cause, batch, caches, poisoned,
                   manager, workers, replies, signals, exit_pc, session,
                   n_done, set_by, held, saved>>

Send == \E c \in Group, m \in Msgs : SendMsg(c, m, MaxSent)
SendCookieMsg == \E c \in Group, m \in CookieMsgs : SendMsg(c, m, MaxRequests)
SendCancelMsg == \E c \in Group, m \in CancelMsgs : SendMsg(c, m, MaxRequests)

\* What a select() that finds channel c ready receives from it, and what
\* it leaves in the channel: the oldest datum, and the others.
ReceivedNewest(c) == <<[id |-> IdOf(c), data |-> chan[c][Len(chan[c])]]>>
Received(c) == <<[id |-> IdOf(c), data |-> Head(chan[c])]>>
Left(c) == Tail(chan[c])

\* Whether a select() may find channel c ready.
MayBeReady(c) == IF chan[c] = <<>> THEN {FALSE} ELSE {FALSE, TRUE}

\* rx_set.select(): the loop blocks until a channel is ready and receives
\* one datum, the oldest, of each channel it found ready.
Select ==
    /\ status = "Running" /\ exit_pc = "idle" /\ batch = <<>>
    /\ \E rp \in MayBeReady("private"), ru \in MayBeReady("public") :
         LET ep == IF rp THEN Received("private") ELSE <<>>
             eu == IF ru THEN Received("public") ELSE <<>>
         IN /\ rp \/ ru
            /\ batch' \in {ep \o eu, eu \o ep}
            /\ chan' = [c \in Group |->
                          IF (c = "private" /\ rp) \/ (c = "public" /\ ru)
                          THEN Left(c) ELSE chan[c]]
    /\ UNCHANGED <<config_dir, disk, status, panic_cause, caches, poisoned, manager,
                   workers, replies, signals, exit_pc, session, spent, n_sent,
                   n_done, set_by, held, saved>>

\* The event the loop handles next.
Event == Head(batch)
Msg == to(Event.data.body).msg
Chan == ChannelOf(Event.id)
Grp == GroupFor(Event.id)

Ready(type) ==
    /\ status = "Running" /\ exit_pc = "idle" /\ batch # <<>>
    /\ to(Event.data.body).ok
    /\ Msg.type = type

HandledEndsBatch ==
    /\ batch' = <<>>
    /\ n_done' = [n_done EXCEPT ![Chan] = @ + 1]
    /\ UNCHANGED <<config_dir, disk, chan, session, spent, n_sent, held, saved>>

\* process_msg returned true: the loop goes on with the next event.
Handled ==
    /\ batch' = Tail(batch)
    /\ n_done' = [n_done EXCEPT ![Chan] = @ + 1]
    /\ UNCHANGED <<config_dir, disk, chan, session, spent, n_sent, held, saved>>

\* The manager thread panics while handling the event.
Panic(cause, locks) ==
    /\ status' = "Panicked"
    /\ panic_cause' = cause
    /\ poisoned' = poisoned \cup locks
    /\ batch' = Tail(batch)
    /\ UNCHANGED <<config_dir, disk, chan, session, spent, n_sent, n_done, held, saved>>

\* A send on the reply channel of the event's message: what was sent, and
\* whether its receiver was still there to get it.
Reply(type, val, alive) ==
    Append(replies, [chan |-> Chan, type |-> type, seq |-> Event.data.seq,
                     done |-> n_done, val |-> val, delivered |-> alive])

SkipUndecodablePanics ==
    /\ status = "Running" /\ exit_pc = "idle" /\ batch # <<>>
    /\ ~to(Event.data.body).ok
    /\ Panic("decode_failed", {})
    /\ UNCHANGED <<caches, manager, workers, replies, signals, exit_pc, set_by>>

\* if let Ok(msg) = data.to() { ... }: a datum that does not deserialize.
SkipUndecodable ==
    /\ status = "Running" /\ exit_pc = "idle" /\ batch # <<>>
    /\ ~to(Event.data.body).ok
    /\ Handled
    /\ UNCHANGED <<status, panic_cause, caches, poisoned, manager, workers, replies,
                   signals, exit_pc, set_by>>

\* ------------------------------------------------------------ handlers
JarLock(g) == <<g, "cookie_jar">>

\* CoreResourceManager::fetch: a thread that shares the group's caches.
FetchWorker(g, c) == [kind |-> "fetch", group |-> g, chan |-> c]
\* websocket_connect: websocket_loader::init gets the group's cookie jar.
WebsocketWorker(g, c) == [kind |-> "websocket", group |-> g, chan |-> c]

ProcessFetch ==
    /\ Ready("Fetch")
    /\ workers' = workers \cup {FetchWorker(Grp, Chan)}
    /\ Handled
    /\ UNCHANGED <<status, panic_cause, caches, poisoned, manager, replies, signals,
                   exit_pc, set_by>>

ProcessWebsocketConnect ==
    /\ Ready("WebsocketConnect")
    /\ workers' = workers \cup {WebsocketWorker(Grp, Chan)}
    /\ Handled
    /\ UNCHANGED <<status, panic_cause, caches, poisoned, manager, replies, signals,
                   exit_pc, set_by>>

\* The cookies of a parsed header that new_wrapped accepts, in order.
RECURSIVE Wrapped(_, _, _)
Wrapped(cookies, request, source) ==
    IF cookies = <<>> THEN <<>>
    ELSE LET w == new_wrapped(Head(cookies), request, source)
         IN (IF w.none THEN <<>> ELSE <<w.val>>)
            \o Wrapped(Tail(cookies), request, source)

set_cookies_unchecked(request, cookie_list, source) ==
    LET header == parse_header(cookie_list)
    IN IF header.ok
       THEN [i \in DOMAIN header.cookies |-> [header.cookies[i] EXCEPT !.domain = request]]
       ELSE <<>>

\* set_cookies_for_url: the cookies it pushes into the group's jar.
set_cookies_for_url(request, cookie_list, source) ==
    LET header == parse_header(cookie_list)
    IN IF header.ok THEN Wrapped(header.cookies, request, source) ELSE <<>>

\* set_cookies_for_url_with_data: the cookie it pushes, if any.
set_cookies_for_url_with_data(request, cookie, source) ==
    Wrapped(<<cookie>>, request, source)

\* The jars that pushing the cookies one after the other may give.
RECURSIVE PushAll(_, _, _)
PushAll(jar, cookies, source) ==
    IF cookies = <<>> THEN {jar}
    ELSE UNION {PushAll(j, Tail(cookies), source) : j \in push(jar, Head(cookies), source)}

Range(seq) == {seq[i] : i \in DOMAIN seq}

\* The setters: resource_group.cookie_jar.write().unwrap() and push, for
\* each accepted cookie; nothing is sent to the caller.
StoreCookies(accepted, source) ==
    IF accepted = <<>>
    THEN /\ Handled
         /\ UNCHANGED <<status, panic_cause, caches, poisoned, set_by>>
    ELSE IF JarLock(Grp) \in poisoned
    THEN /\ Panic("lock_poisoned", {})
         /\ UNCHANGED <<caches, set_by>>
    ELSE /\ \E j \in PushAll(cookie_jar[Grp], accepted, source) :
              cookie_jar' = [cookie_jar EXCEPT ![Grp] = j]
         /\ set_by' = [set_by EXCEPT ![Chan] = @ \cup Range(accepted)]
         /\ Handled
         /\ UNCHANGED <<status, panic_cause, auth_cache, hsts_list, poisoned>>

ProcessSetCookiesForUrl ==
    /\ Ready("SetCookiesForUrl")
    /\ StoreCookies(set_cookies_for_url(Msg.url, Msg.cookie_list, Msg.source), Msg.source)
    /\ UNCHANGED <<manager, workers, replies, signals, exit_pc>>

ProcessSetCookiesForUrlWithData ==
    /\ Ready("SetCookiesForUrlWithData")
    /\ StoreCookies(set_cookies_for_url_with_data(Msg.url, Msg.cookie, Msg.source),
                    Msg.source)
    /\ UNCHANGED <<manager, workers, replies, signals, exit_pc>>

\* GetCookiesForUrl / GetCookiesDataForUrl: group.cookie_jar.write().unwrap(),
\* then consumer.send(val).unwrap() with the jar's lock held.
SendCookies(type, val) ==
    IF JarLock(Grp) \in poisoned
    THEN /\ Panic("lock_poisoned", {})
         /\ UNCHANGED replies
    ELSE \E consumer_alive \in BOOLEAN :
           /\ replies' = Reply(type, val, consumer_alive)
           /\ IF consumer_alive
              THEN /\ Handled
                   /\ UNCHANGED <<status, panic_cause, poisoned>>
              ELSE Panic("send_failed", {JarLock(Grp)})

ProcessGetCookiesForUrl ==
    /\ Ready("GetCookiesForUrl")
    /\ SendCookies("GetCookiesForUrl",
                   cookies_for_url(cookie_jar[Grp], Msg.url, Msg.source))
    /\ UNCHANGED <<caches, manager, workers, signals, exit_pc, set_by>>

ProcessGetCookiesDataForUrl ==
    /\ Ready("GetCookiesDataForUrl")
    /\ SendCookies("GetCookiesDataForUrl",
                   cookies_data_for_url(cookie_jar[Grp], Msg.url, Msg.source))
    /\ UNCHANGED <<caches, manager, workers, signals, exit_pc, set_by>>

ProcessNetworkMediator ==
    /\ Ready("NetworkMediator")
    /\ swmanager_chan' = Some(Msg.mediator)
    /\ Handled
    /\ UNCHANGED <<status, panic_cause, caches, poisoned, cancel_load_map, workers,
                   replies, signals, exit_pc, set_by>>

cancelAlwaysSends(map, res_id, receiver_alive) ==
    [signal |-> <<[id |-> res_id, delivered |-> receiver_alive]>>,
     map |-> map \ {res_id}]

cancelKeepsUndelivered(map, res_id, receiver_alive) ==
    [signal |-> IF res_id \in map
                THEN <<[id |-> res_id, delivered |-> receiver_alive]>> ELSE <<>>,
     map |-> IF receiver_alive THEN map \ {res_id} ELSE map]

\* Cancel(res_id): the signal sent to the registered sender, if there is
\* one (the result of the send is dropped), and the map without res_id.
cancel(map, res_id, receiver_alive) ==
    [signal |-> IF res_id \in map
                THEN <<[id |-> res_id, delivered |-> receiver_alive]>> ELSE <<>>,
     map |-> map \ {res_id}]

ProcessCancel ==
    /\ Ready("Cancel")
    /\ \E receiver_alive \in BOOLEAN :
         LET r == cancel(cancel_load_map, Msg.res_id, receiver_alive)
         IN /\ signals' = signals \o r.signal
            /\ cancel_load_map' = r.map
    /\ Handled
    /\ UNCHANGED <<status, panic_cause, caches, poisoned, swmanager_chan, workers,
                   replies, exit_pc, set_by>>

\* Synchronize(sender): let _ = sender.send(()).
ProcessSynchronize ==
    /\ Ready("Synchronize")
    /\ \E sender_alive \in BOOLEAN : replies' = Reply("Synchronize", "ack", sender_alive)
    /\ Handled
    /\ UNCHANGED <<status, panic_cause, caches, poisoned, manager, workers, signals,
                   exit_pc, set_by>>

\* ToFileManager(msg): filemanager.handle(msg, TFD_PROVIDER).
ProcessToFileManager ==
    /\ Ready("ToFileManager")
    /\ Handled
    /\ UNCHANGED <<status, panic_cause, caches, poisoned, manager, workers, replies,
                   signals, exit_pc, set_by>>

\* ---------------------------------------------------------------- Exit
\* json::encode(&data): the text, or an EncoderError. The three caches
\* always encode; write_json_to_file is generic in the value it is given.
json_encode(text, encodes) == [ok |-> encodes, text |-> text]

write_json_warns(encoded, file, create_ok, write_ok) ==
    IF ~encoded.ok THEN [panic |-> FALSE, outcome |-> "not_encoded", file |-> file]
    ELSE IF ~create_ok THEN [panic |-> FALSE, outcome |-> "not_created", file |-> file]
    ELSE IF ~write_ok
    THEN [panic |-> FALSE, outcome |-> "not_written", file |-> FileOf(<<>>)]
    ELSE [panic |-> FALSE, outcome |-> "written", file |-> FileOf(encoded.text)]

\* write_json_to_file(&data, config_dir, filename): nothing is written when
\* the encoding fails; File::create or write_all failing panics, the second
\* after the file was created empty.
write_json_to_file(encoded, file, create_ok, write_ok) ==
    IF ~encoded.ok THEN [panic |-> FALSE, outcome |-> "not_encoded", file |-> file]
    ELSE IF ~create_ok THEN [panic |-> TRUE, outcome |-> "not_created", file |-> file]
    ELSE IF ~write_ok
    THEN [panic |-> TRUE, outcome |-> "not_written", file |-> FileOf(<<>>)]
    ELSE [panic |-> FALSE, outcome |-> "written", file |-> FileOf(encoded.text)]

\* The Exit arm of process_msg writes the files in this order.
FirstFile == "auth_cache.json"
NextFileAck(f) == "ack"
NextFile(f) ==
    IF f = "auth_cache.json" THEN "cookie_jar.json"
    ELSE IF f = "cookie_jar.json" THEN "hsts_list.json"
    ELSE "ack"
FieldOf(f) ==
    IF f = "auth_cache.json" THEN "auth_cache"
    ELSE IF f = "cookie_jar.json" THEN "cookie_jar"
    ELSE "hsts_list"

\* The cache of group g that the Exit arm serializes into file f.
ExitData(g, f) ==
    IF f = "auth_cache.json" THEN auth_cache[g]
    ELSE IF f = "cookie_jar.json" THEN cookie_jar[g]
    ELSE hsts_list[g]
ExitText(g, f) ==
    IF f = "auth_cache.json" THEN EncodeAuthCache(auth_cache[g])
    ELSE IF f = "cookie_jar.json" THEN EncodeCookieStorage(cookie_jar[g])
    ELSE EncodeHstsList(hsts_list[g])

\* Exit(sender): if let Some(ref config_dir) = self.config_dir.
ExitBegin ==
    /\ Ready("Exit")
    /\ exit_pc' = IF config_dir THEN FirstFile ELSE "ack"
    /\ UNCHANGED <<config_dir, disk, status, panic_cause, chan, batch, caches,
                   poisoned, manager, workers, replies, signals, session, spent,
                   n_sent, n_done, set_by, held, saved>>

\* Where the Exit arm is while it holds the read lock of a file's cache.
WritingPc(f) ==
    IF f = "auth_cache.json" THEN "write_auth_cache"
    ELSE IF f = "cookie_jar.json" THEN "write_cookie_jar"
    ELSE "write_hsts_list"
FileAt(pc) == CHOOSE f \in File : WritingPc(f) = pc

\* The locks the manager thread holds after it takes lock, and after the
\* guard of lock goes out of scope at the end of its match arm.
AcquireNothing(lock) == held
Acquire(lock) == held \cup {lock}
ReleaseNothing(lock) == held
Release(lock) == held \ {lock}

\* match group.<cache>.read(): Ok(guard) on a lock that is not poisoned,
\* Err(_) => warn! on a poisoned one, which skips the file.
ExitLock ==
    /\ status = "Running" /\ exit_pc \in File
    /\ IF <<Grp, FieldOf(exit_pc)>> \in poisoned
       THEN /\ exit_pc' = NextFile(exit_pc)
            /\ saved' = [saved EXCEPT ![exit_pc] =
                           Outcome("poisoned", Grp, session, ExitData(Grp, exit_pc))]
            /\ UNCHANGED held
       ELSE /\ exit_pc' = WritingPc(exit_pc)
            /\ held' = Acquire(<<Grp, FieldOf(exit_pc)>>)
            /\ UNCHANGED saved
    /\ UNCHANGED <<config_dir, disk, status, panic_cause, chan, batch, caches,
                   poisoned, manager, workers, replies, signals, session, spent,
                   n_sent, n_done, set_by>>

\* Ok(cache) => write_json_to_file(&*cache, config_dir, file), the guard
\* dropped at the end of the arm, or by the unwinding of a panic.
ExitWriteWith(encoders) ==
    /\ status = "Running" /\ exit_pc \in {WritingPc(f) : f \in File}
    /\ LET f == FileAt(exit_pc) IN
       \E encodes \in encoders, create_ok \in BOOLEAN, write_ok \in BOOLEAN :
         LET w == write_json_to_file(json_encode(ExitText(Grp, f), encodes),
                                     disk[f], create_ok, write_ok)
         IN /\ disk' = [disk EXCEPT ![f] = w.file]
            /\ saved' = [saved EXCEPT ![f] =
                           Outcome(w.outcome, Grp, session, ExitData(Grp, f))]
            /\ IF w.panic
               THEN /\ status' = "Panicked"
                    /\ panic_cause' = "write_file"
                    /\ exit_pc' = "idle"
                    /\ batch' = Tail(batch)
                    /\ held' = {}
               ELSE /\ exit_pc' = NextFile(f)
                    /\ held' = Release(<<Grp, FieldOf(f)>>)
                    /\ UNCHANGED <<status, panic_cause, batch>>
    /\ UNCHANGED <<config_dir, chan, caches, poisoned, manager, workers, replies,
                   signals, session, spent, n_sent, n_done, set_by>>

\* The caches of a ResourceGroup always encode.
ExitWrite == ExitWriteWith({TRUE})

ExitAckGoesOn ==
    /\ status = "Running" /\ exit_pc = "ack"
    /\ \E sender_alive \in BOOLEAN : replies' = Reply("Exit", "ack", sender_alive)
    /\ exit_pc' = "idle"
    /\ Handled
    /\ UNCHANGED <<status, panic_cause, caches, poisoned, manager, workers, signals,
                   set_by>>

\* let _ = sender.send(()); return false: the loop, and the thread, end.
ExitAck ==
    /\ status = "Running" /\ exit_pc = "ack"
    /\ \E sender_alive \in BOOLEAN : replies' = Reply("Exit", "ack", sender_alive)
    /\ status' = "Stopped"
    /\ exit_pc' = "idle"
    /\ Handled
    /\ UNCHANGED <<panic_cause, caches, poisoned, manager, workers, signals, set_by>>

\* ------------------------------------------------------------- workers
\* What a fetch or a websocket connection stores from a response.
WorkerCookie == BareCookie("srv", "1", "a.test", FALSE)
WorkerAuthKey == "a.test"
WorkerAuthEntry == AuthCacheEntry("user", "secret")
WorkerHstsHost == "a.test"

WorkerFields(w) == IF w.kind = "fetch" THEN Field ELSE {"cookie_jar"}

\* A worker takes the write lock of field f of its group, which it gets
\* only when the manager holds no lock on that field, and updates the
\* cache; on a poisoned lock its unwrap panics and the thread ends.
WorkerWrite(w, f) ==
    /\ w \in workers /\ f \in WorkerFields(w)
    /\ <<w.group, f>> \notin held
    /\ IF <<w.group, f>> \in poisoned
       THEN /\ workers' = workers \ {w}
            /\ UNCHANGED <<caches, set_by>>
       ELSE /\ \/ /\ f = "cookie_jar"
                  /\ \E j \in push(cookie_jar[w.group], WorkerCookie, HTTP) :
                       cookie_jar' = [cookie_jar EXCEPT ![w.group] = j]
                  /\ set_by' = [set_by EXCEPT ![w.chan] = @ \cup {WorkerCookie}]
                  /\ UNCHANGED <<auth_cache, hsts_list>>
               \/ /\ f = "auth_cache"
                  /\ auth_cache' = [auth_cache EXCEPT ![w.group].entries =
                         [k \in DOMAIN @ \cup {WorkerAuthKey} |->
                            IF k = WorkerAuthKey THEN WorkerAuthEntry ELSE @[k]]]
                  /\ UNCHANGED <<cookie_jar, hsts_list, set_by>>
               \/ /\ f = "hsts_list"
                  /\ hsts_list' = [hsts_list EXCEPT ![w.group] = @ \cup {WorkerHstsHost}]
                  /\ UNCHANGED <<cookie_jar, auth_cache, set_by>>
            /\ UNCHANGED workers
    /\ UNCHANGED <<config_dir, disk, status, panic_cause, chan, batch, poisoned,
                   manager, replies, signals, exit_pc, session, spent, n_sent,
                   n_done, held, saved>>

\* A worker panics while it holds the write lock of field f of its group.
WorkerPanic(w, f) ==
    /\ w \in workers /\ f \in WorkerFields(w)
    /\ <<w.group, f>> \notin poisoned
    /\ <<w.group, f>> \notin held
    /\ poisoned' = poisoned \cup {<<w.group, f>>}
    /\ workers' = workers \ {w}
    /\ UNCHANGED <<config_dir, disk, status, panic_cause, chan, batch, caches,
                   manager, replies, signals, exit_pc, session, spent, n_sent,
                   n_done, set_by, held, saved>>

\* send_error(url, err, start_chan): start_sending_opt, then
\* p.send(Done(Err(err))).unwrap().
send_error(start_alive, progress_alive) ==
    IF ~start_alive THEN "dropped"
    ELSE IF progress_alive THEN "sent"
    ELSE "panic"

\* A worker ends: its load is over, or it could not begin and send_error
\* reported that to the consumer.
WorkerEnd(w) ==
    /\ w \in workers
    /\ workers' = workers \ {w}
    /\ UNCHANGED <<config_dir, disk, status, panic_cause, chan, batch, caches,
                   poisoned, manager, replies, signals, exit_pc, session, spent,
                   n_sent, n_done, set_by, held, saved>>

Worker ==
    \E w \in workers :
       \/ \E f \in Field : WorkerWrite(w, f)
       \/ \E f \in Field : WorkerPanic(w, f)
       \/ WorkerEnd(w)

\* ------------------------------------------------------------- restart
\* The manager thread starts: create_resource_groups on the directory, new
\* channels, a new CoreResourceManager.
Construct ==
    /\ LET groups == create_resource_groups(config_dir, disk) IN
       /\ status' = IF groups.panic THEN "Panicked" ELSE "Running"
       /\ panic_cause' = IF groups.panic THEN "read_file" ELSE "none"
       /\ cookie_jar' = groups.cookie_jar
       /\ auth_cache' = groups.auth_cache
       /\ hsts_list' = groups.hsts_list
       /\ set_by' = groups.cookie_jar
    /\ chan' = [c \in Group |-> <<>>]
    /\ batch' = <<>>
    /\ poisoned' = {}
    /\ cancel_load_map' = {}
    /\ swmanager_chan' = None
    /\ workers' = {}
    /\ replies' = <<>>
    /\ signals' = <<>>
    /\ exit_pc' = "idle"
    /\ session' = session + 1
    /\ n_sent' = [c \in Group |-> 0]
    /\ n_done' = [c \in Group |-> 0]
    /\ held' = {}
    /\ UNCHANGED <<config_dir, disk, spent, saved>>

\* The process is started again on the same directory after the manager
\* thread has ended.
NewManager ==
    /\ status \in {"Stopped", "Panicked"}
    /\ Construct

Next ==
    \/ Send
    \/ Select
    \/ SkipUndecodable
    \/ ProcessFetch
    \/ ProcessWebsocketConnect
    \/ ProcessSetCookiesForUrl
    \/ ProcessSetCookiesForUrlWithData
    \/ ProcessGetCookiesForUrl
    \/ ProcessGetCookiesDataForUrl
    \/ ProcessNetworkMediator
    \/ ProcessCancel
    \/ ProcessSynchronize
    \/ ProcessToFileManager
    \/ ExitBegin
    \/ ExitLock
    \/ ExitWrite
    \/ ExitAck
    \/ Worker
    \/ NewManager

Spec == Init /\ [][Next]_vars

\* The cookie traffic alone.
NextCookies ==
    \/ SendCookieMsg
    \/ Select
    \/ ProcessSetCookiesForUrl
    \/ ProcessSetCookiesForUrlWithData
    \/ ProcessGetCookiesForUrl
    \/ ProcessGetCookiesDataForUrl

SpecCookies == Init /\ [][NextCookies]_vars

\* The Cancel arm of process_msg on every registry.
InitCancel ==
    /\ \E dir \in BOOLEAN, map \in SUBSET ResourceIds : Started(dir, EmptyDisk, map)
    /\ saved = [f \in File |-> NotSaved]

NextCancel ==
    \/ SendCancelMsg
    \/ Select
    \/ ProcessCancel
    \/ ProcessSynchronize

SpecCancel == InitCancel /\ [][NextCancel]_vars

\* The start of a manager on a directory whose files are absent, cannot be
\* read after they were opened (a directory of that name, or bytes that
\* are not UTF-8), do not decode, or hold a saved cache.
Unreadable == [exists |-> TRUE, readable |-> FALSE, text |-> <<>>]
Garbage == FileOf(<<"{", "version">>)
AuthFiles ==
    {NoFile, Unreadable, Garbage,
     FileOf(EncodeAuthCache([version |-> AuthVersion,
                             entries |-> [k \in {WorkerAuthKey} |-> WorkerAuthEntry]]))}
JarFiles ==
    {NoFile, Unreadable, Garbage, FileOf(EncodeCookieStorage({WorkerCookie}))}
HstsFiles ==
    {NoFile, Unreadable, Garbage,
     FileOf(EncodeHstsList({"site.test"})),
     FileOf(EncodeHstsList(from_servo_preload \cup {"site.test"}))}

\* Before the manager thread runs: the values create_resource_groups
\* begins with, and the files of the directory.
InitLoad ==
    /\ config_dir \in BOOLEAN
    /\ \E a \in AuthFiles, j \in JarFiles, h \in HstsFiles :
         disk = [f \in File |-> IF f = "auth_cache.json" THEN a
                                ELSE IF f = "cookie_jar.json" THEN j ELSE h]
    /\ status = "NotStarted"
    /\ panic_cause = "none"
    /\ chan = [c \in Group |-> <<>>]
    /\ batch = <<>>
    /\ cookie_jar = [g \in Group |-> NewCookieStorage]
    /\ auth_cache = [g \in Group |-> NewAuthCache]
    /\ hsts_list = [g \in Group |-> IF g = "public" THEN from_servo_preload
                                     ELSE NewHstsList]
    /\ poisoned = {}
    /\ cancel_load_map = {}
    /\ swmanager_chan = None
    /\ workers = {}
    /\ replies = <<>>
    /\ signals = <<>>
    /\ exit_pc = "idle"
    /\ session = 0
    /\ spent = 0
    /\ n_sent = [c \in Group |-> 0]
    /\ n_done = [c \in Group |-> 0]
    /\ set_by = [g \in Group |-> NewCookieStorage]
    /\ held = {}
    /\ saved = [f \in File |-> NotSaved]

\* new_core_resource_thread: the manager thread is spawned and starts.
StartManager ==
    /\ status = "NotStarted"
    /\ Construct

NextLoad == StartManager

SpecLoad == InitLoad /\ [][NextLoad]_vars

\* The Exit arm on a directory that is new or holds the files of an
\* earlier run, with fetches under way, for any Encodable value: the
\* encoder of write_json_to_file may fail.
MaxSaves == 2
SaveMsgs == {Fetch, Exit}
SavedDisk ==
    [f \in File |->
       IF f = "auth_cache.json" THEN FileOf(EncodeAuthCache(NewAuthCache))
       ELSE IF f = "cookie_jar.json" THEN FileOf(EncodeCookieStorage({WorkerCookie}))
       ELSE FileOf(EncodeHstsList(from_servo_preload))]

InitSave ==
    /\ \E dir \in BOOLEAN, files \in {EmptyDisk, SavedDisk} : Started(dir, files, {})
    /\ saved = [f \in File |-> NotSaved]

SendSaveMsg == \E c \in Group, m \in SaveMsgs : SendMsg(c, m, MaxSaves)
ExitWriteAny == ExitWriteWith(BOOLEAN)

NextSave ==
    \/ SendSaveMsg
    \/ Select
    \/ ProcessFetch
    \/ ExitBegin
    \/ ExitLock
    \/ ExitWriteAny
    \/ ExitAck
    \/ Worker

SpecSave == InitSave /\ [][NextSave]_vars

\* The loop when a client drops every sender of a channel: the receiver
\* set reports the closure, after the data sent before it, as an event
\* IpcSelectionResult::ChannelClosed(id), which m.unwrap() panics on.
MaxClose == 2
ChannelClosed == [type |-> "ChannelClosed"]
CloseMsgs ==
    {Synchronize, Exit, SetCookiesForUrl("a.test", <<Pair("id", "42")>>, HTTP),
     GetCookiesForUrl("a.test", HTTP)}

\* Every sender of channel c is gone.
Closed(c) ==
    \/ \E i \in DOMAIN chan[c] : chan[c][i].body = ChannelClosed
    \/ \E i \in DOMAIN batch : batch[i].id = IdOf(c) /\ batch[i].data.body = ChannelClosed

SendCloseMsg ==
    \E c \in Group, m \in CloseMsgs : ~Closed(c) /\ SendMsg(c, m, MaxClose)

\* The last sender of channel c is dropped.
CloseChannel ==
    \E c \in Group :
       /\ status = "Running" /\ ~Closed(c)
       /\ chan' = [chan EXCEPT ![c] = Append(@, [seq |-> 0, body |-> ChannelClosed])]
       /\ UNCHANGED <<config_dir, disk, status, panic_cause, batch, caches, poisoned,
                      manager, workers, replies, signals, exit_pc, session, spent,
                      n_sent, n_done, set_by, held, saved>>

ChannelClosedIgnored ==
    /\ status = "Running" /\ exit_pc = "idle" /\ batch # <<>>
    /\ Event.data.body = ChannelClosed
    /\ batch' = Tail(batch)
    /\ UNCHANGED <<config_dir, disk, status, panic_cause, chan, caches, poisoned,
                   manager, workers, replies, signals, exit_pc, session, spent,
                   n_sent, n_done, set_by, held, saved>>

\* .map(|m| m.unwrap()) when the for loop comes to a ChannelClosed event.
ChannelClosedPanics ==
    /\ status = "Running" /\ exit_pc = "idle" /\ batch # <<>>
    /\ Event.data.body = ChannelClosed
    /\ Panic("channel_closed", {})
    /\ UNCHANGED <<caches, manager, workers, replies, signals, exit_pc, set_by>>

NextClose ==
    \/ SendCloseMsg
    \/ CloseChannel
    \/ Select
    \/ ChannelClosedPanics
    \/ ProcessSetCookiesForUrl
    \/ ProcessGetCookiesForUrl
    \/ ProcessSynchronize
    \/ ExitBegin
    \/ ExitLock
    \/ ExitWrite
    \/ ExitAck

SpecClose == Init /\ [][NextClose]_vars

\* The loop on data that do not deserialize, among messages that each
\* leave a trace: a mediator, a stored cookie, a reply.
MaxSkips == 3
SkipMsgs ==
    {Undecodable, NetworkMediator("sw"),
     SetCookiesForUrl("a.test", <<Pair("id", "42")>>, HTTP),
     GetCookiesForUrl("a.test", HTTP)}

SendSkipMsg == \E c \in Group, m \in SkipMsgs : SendMsg(c, m, MaxSkips)

NextSkip ==
    \/ SendSkipMsg
    \/ Select
    \/ SkipUndecodable
    \/ ProcessNetworkMediator
    \/ ProcessSetCookiesForUrl
    \/ ProcessGetCookiesForUrl

SpecSkip == InitCancel /\ [][NextSkip]_vars

\* -------------------------------------------------------------- claims
Sends(type) == {i \in DOMAIN replies : replies[i].type = type}
PairsOf(cookies) == {Pair(c.name, c.value) : c \in cookies}

\* C1: public / private isolation. At every moment each group's cookie jar
\* holds only cookies stored on behalf of its own channel (by a setter
\* message received on that channel, by a worker spawned for a message of
\* that channel, or loaded at startup for the public one), and every
\* GetCookiesForUrl / GetCookiesDataForUrl reply on a channel holds only
\* such cookies: a cookie set through the other channel alone is never in it.
C1_Isolation ==
    /\ \A g \in Group : cookie_jar[g] \subseteq set_by[g]
    /\ \A i \in Sends("GetCookiesForUrl") :
         ~replies[i].val.none =>
            replies[i].val.val \subseteq PairsOf(set_by[replies[i].chan])
    /\ \A i \in Sends("GetCookiesDataForUrl") :
         replies[i].val \subseteq set_by[replies[i].chan]

\* A public GetCookiesForUrl was answered None after a setter on the private
\* channel had stored a cookie that the same request would have matched.
C1_Witness ==
    /\ Visible(cookie_jar["private"], "a.test", HTTP) # {}
    /\ \E i \in Sends("GetCookiesForUrl") :
         /\ replies[i].chan = "public" /\ replies[i].delivered
         /\ replies[i].done["private"] = 1
         /\ replies[i].val.none

\* C2: the private group's state is never saved to disk: no file is ever
\* written from a cache of the private group, and a manager that has
\* handled nothing yet has empty private caches.
C2_PrivateNeverSaved ==
    /\ \A f \in File : saved[f].outcome = "written" => saved[f].group = "public"
    /\ (status = "Running" /\ n_sent = [c \in Group |-> 0]) =>
          /\ cookie_jar["private"] = NewCookieStorage
          /\ auth_cache["private"] = NewAuthCache
          /\ hsts_list["private"] = NewHstsList

\* The files of this manager's Exit for group g that ended as in outcomes.
ExitFiles(g, outcomes) ==
    {f \in File : /\ saved[f].outcome \in outcomes
                  /\ saved[f].group = g
                  /\ saved[f].session = session}

Sent(type) ==
    /\ Len(replies') = Len(replies) + 1
    /\ replies'[Len(replies')].type = type
LastSent == replies'[Len(replies')]

\* The loop handles, or starts to handle, a message of one of the types.
Handles(types) ==
    /\ status = "Running" /\ exit_pc = "idle" /\ batch # <<>>
    /\ to(Event.data.body).ok /\ Msg.type \in types
    /\ batch' = Tail(batch)

\* C4: Stopped is terminal. Once a manager has sent the acknowledgment of
\* an Exit it handles nothing more: it stays Stopped, the events left of
\* the select batch stay unhandled, it sends no reply and no signal,
\* changes neither its registry nor its mediator nor the disk, spawns no
\* worker, and the caches change only by a worker still running; and a
\* manager sends at most one Exit acknowledgment.
C4_StoppedIsTerminal ==
    [][ /\ (Sends("Exit") # {} /\ session' = session) =>
             /\ status' = "Stopped"
             /\ UNCHANGED <<batch, n_done, replies, signals, manager, disk>>
             /\ workers' \subseteq workers
             /\ caches' # caches => workers # {}
        /\ Cardinality({i \in DOMAIN replies' : replies'[i].type = "Exit"}) <= 1
      ]_vars

\* The manager stopped on an Exit with an event of the same select batch
\* left unhandled.
C4_Witness ==
    /\ status = "Stopped" /\ Sends("Exit") # {}
    /\ batch # <<>>

\* C5: Synchronize is a barrier on its own channel. When its acknowledgment
\* is sent, every datum sent earlier on the same channel has been handled
\* to the end, and handling it changes no cache, no lock, no manager state
\* and no file; workers spawned earlier may still run.
C5_SynchronizeIsBarrier ==
    [][ Sent("Synchronize") =>
          /\ LastSent.done[LastSent.chan] = LastSent.seq - 1
          /\ UNCHANGED <<caches, poisoned, manager, workers, signals, disk,
                         status, exit_pc>>
      ]_vars

\* A Synchronize sent second on a channel was acknowledged while the worker
\* of the Fetch sent before it on that channel was still running, its
\* cookie not yet stored.
C5_Witness ==
    \E i \in Sends("Synchronize") :
       /\ replies[i].seq = 2 /\ replies[i].delivered
       /\ FetchWorker(replies[i].chan, replies[i].chan) \in workers
       /\ cookie_jar[replies[i].chan] = {}

\* C6: Cancel(id) for an id with no entry in the registry is a no-op: no
\* signal is sent, the registry, the caches, the locks and the mediator
\* are unchanged, nothing is replied and the loop stays Running.
C6_CancelUnknownIsNoOp ==
    [][ (Handles({"Cancel"}) /\ Msg.res_id \notin cancel_load_map) =>
          /\ UNCHANGED <<signals, manager, caches, poisoned, workers, replies, disk>>
          /\ status' = "Running"
      ]_vars

\* Two data were handled on the public channel without a reply, r1 was
\* signalled once and r2 is still registered: a second Cancel(r1) came
\* after the first and did nothing.
C6_Witness ==
    /\ n_done["public"] = 2 /\ replies = <<>>
    /\ Len(signals) = 1 /\ signals[1].id = "r1"
    /\ cancel_load_map = {"r2"}

\* C7: Cancel(id) for a registered id sends exactly one signal, to the
\* sender registered for id, and removes id from the registry whether or
\* not the signal was delivered; the other registrations stay.
C7_CancelRegistered ==
    [][ (Handles({"Cancel"}) /\ Msg.res_id \in cancel_load_map) =>
          /\ \E d \in BOOLEAN :
               signals' = Append(signals, [id |-> Msg.res_id, delivered |-> d])
          /\ cancel_load_map' = cancel_load_map \ {Msg.res_id}
      ]_vars

\* The signal for r1 could not be delivered and r1 is registered no more,
\* while r2 still is.
C7_Witness ==
    /\ signals = <<[id |-> "r1", delivered |-> FALSE]>>
    /\ cancel_load_map = {"r2"}

\* The cookies a setter message offers, and those of them that the
\* validation against the message's url and source accepts.
Offered(m) ==
    IF m.type = "SetCookiesForUrlWithData" THEN {m.cookie}
    ELSE IF parse_header(m.cookie_list).ok THEN Range(parse_header(m.cookie_list).cookies)
    ELSE {}
Accepted(m) ==
    {new_wrapped(b, m.url, m.source).val :
        b \in {o \in Offered(m) : ~new_wrapped(o, m.url, m.source).none}}

\* C8: a setter stores every cookie it offers that parses and passes the
\* validation, so that a GetCookiesForUrl for the setter's url and source
\* sees it, stores nothing else, and sends nothing to the caller; and
\* GetCookiesForUrl on a channel answers with exactly the cookies of that
\* channel's jar that match its url and source. So the accepted cookie is
\* in the answer of the Get that follows, and a rejected one in none.
C8_SetThenGet ==
    [][ /\ (Handles({"SetCookiesForUrl", "SetCookiesForUrlWithData"})
            /\ status' = "Running") =>
             /\ Accepted(Msg) \subseteq Visible(cookie_jar'[Chan], Msg.url, Msg.source)
             /\ cookie_jar'[Chan] \subseteq cookie_jar[Chan] \cup Accepted(Msg)
             /\ replies' = replies
        /\ (Handles({"GetCookiesForUrl"}) /\ Sent("GetCookiesForUrl")) =>
             /\ LastSent.chan = Chan
             /\ LastSent.val =
                  IF Visible(cookie_jar[Chan], Msg.url, Msg.source) = {} THEN None
                  ELSE Some(PairsOf(Visible(cookie_jar[Chan], Msg.url, Msg.source)))
      ]_vars

\* The third message of a channel, a GetCookiesForUrl from HTTP, was
\* answered id=42 alone after two setters.
C8_Witness ==
    /\ Len(replies) = 1
    /\ replies[1].type = "GetCookiesForUrl" /\ replies[1].delivered
    /\ replies[1].seq = 3
    /\ replies[1].val = Some({Pair("id", "42")})

\* C9: persistence round trip. A manager started on the directory after a
\* manager whose Exit for the public group wrote the three files starts
\* with the public cookie jar, auth cache and HSTS list that were written,
\* and every new manager starts with empty private caches.
C9_RoundTrip ==
    [][ session' = session + 1 =>
          /\ ExitFiles("public", {"written"}) = File =>
               /\ cookie_jar'["public"] = saved["cookie_jar.json"].data
               /\ auth_cache'["public"] = saved["auth_cache.json"].data
               /\ hsts_list'["public"] = saved["hsts_list.json"].data
          /\ cookie_jar'["private"] = NewCookieStorage
          /\ auth_cache'["private"] = NewAuthCache
          /\ hsts_list'["private"] = NewHstsList
      ]_vars

\* A second manager runs with a cookie, a credential and an HSTS host that
\* a fetch of the first one stored and its Exit saved.
C9_Witness ==
    /\ session = 2 /\ status = "Running" /\ n_sent = [c \in Group |-> 0]
    /\ WorkerCookie \in cookie_jar["public"]
    /\ WorkerAuthKey \in DOMAIN auth_cache["public"].entries
    /\ WorkerHstsHost \in hsts_list["public"]

\* C10: a reply channel whose peer has gone away is never fatal: the
\* manager thread never panics on a failed send.
C10_DisconnectIsNotFatal == panic_cause # "send_failed"

\* What a file gives when it is decoded as the cache of its name.
Decoded(f, file) ==
    IF f = "auth_cache.json" THEN DecodeAuthCache(file.text)
    ELSE IF f = "cookie_jar.json" THEN DecodeCookieStorage(file.text)
    ELSE DecodeHstsList(file.text)

\* C11: load never fails fatally. When a manager starts on a directory,
\* the thread does not panic, and for each of the three files: the public
\* cache keeps the default it had before the load when the file is absent,
\* cannot be read or does not decode, and takes the decoded value only when
\* the file decodes.
C11_LoadNeverFatal ==
    [][ (session' = session + 1 /\ config_dir) =>
          /\ status' = "Running"
          /\ \A f \in File :
               LET default == IF f = "auth_cache.json" THEN NewAuthCache
                              ELSE IF f = "cookie_jar.json" THEN NewCookieStorage
                              ELSE from_servo_preload
                   loaded == IF f = "auth_cache.json" THEN auth_cache'["public"]
                             ELSE IF f = "cookie_jar.json" THEN cookie_jar'["public"]
                             ELSE hsts_list'["public"]
               IN loaded = IF disk[f].exists /\ disk[f].readable
                              /\ Decoded(f, disk[f]).ok
                           THEN Decoded(f, disk[f]).data
                           ELSE default
      ]_vars

\* C12: a failed fetch never affects the dispatch loop. Whatever a fetch
\* worker does, a panic while it holds the write lock of a cache of its
\* group included, the manager thread never panics on the lock that the
\* worker poisoned and goes on handling the messages that follow.
C12_FailedFetchSparesLoop == panic_cause # "lock_poisoned"

\* C13: when a Fetch is dispatched, an entry for its resource id is
\* created in the cancellation registry: handling a Fetch adds one id to
\* cancel_load_map.
C13_FetchRegisters ==
    [][ Handles({"Fetch"}) =>
          \E id \in ResourceIds :
             /\ id \notin cancel_load_map
             /\ cancel_load_map' = cancel_load_map \cup {id}
      ]_vars

\* The data of channel c that the loop has received and not yet handled,
\* followed by those still in the channel.
InBatch(c) ==
    LET OfChannel(e) == ChannelOf(e.id) = c IN SelectSeq(batch, OfChannel)
PendingData(c) == [i \in DOMAIN InBatch(c) |-> InBatch(c)[i].data] \o chan[c]

\* C14 as amended: the loop handles the events a select returns one after
\* the other, and the data of one channel in the order they were sent.
\* While the loop runs, the data of a channel not yet handled are, in
\* order, the ones sent after those handled, none lost and none
\* overtaken; the handler in progress is that of the first event of the
\* batch; and every reply to the k-th datum of a channel was sent when
\* exactly the k-1 data before it had been handled to the end.
C14_InOrderOneAtATime ==
    /\ status = "Running" =>
         /\ \A c \in Group :
              /\ \A i \in DOMAIN PendingData(c) : PendingData(c)[i].seq = n_done[c] + i
              /\ n_done[c] + Len(PendingData(c)) = n_sent[c]
         /\ exit_pc # "idle" => (batch # <<>> /\ Msg.type = "Exit")
    /\ \A i \in DOMAIN replies : replies[i].done[replies[i].chan] = replies[i].seq - 1

\* C14 as claimed: the above, and the loop takes exactly one ready message
\* per iteration, so that no select leaves more than one event to handle.
C14_OneMessagePerIteration ==
    /\ C14_InOrderOneAtATime
    /\ Len(batch) <= 1

\* One select returned an event of each channel, the public one first
\* although the private receiver was added to the set first.
C14_Witness ==
    /\ status = "Running" /\ Len(batch) = 2
    /\ batch[1].id = public_id /\ batch[2].id = private_id

\* The manager thread takes a step of the handling of the first event of
\* its batch.
ManagerStep ==
    /\ status = "Running" /\ batch # <<>> /\ session' = session
    /\ batch' # batch \/ exit_pc' # exit_pc \/ saved' # saved

\* C15: the group a message acts on is the one of the channel it arrived
\* on, whatever the message. Every step of the handling of an event of
\* channel c leaves the caches and the locks of the other group alone,
\* spawns workers on c's group only, takes, poisons and saves from c's
\* group only, and answers a cookie query from c's jar.
C15_GroupByEndpoint ==
    [][ ManagerStep =>
          LET c == ChannelOf(Event.id)
              o == CHOOSE g \in Group : g # c
          IN /\ cookie_jar'[o] = cookie_jar[o]
             /\ auth_cache'[o] = auth_cache[o]
             /\ hsts_list'[o] = hsts_list[o]
             /\ \A w \in workers' \ workers : w.group = c
             /\ \A l \in (held' \cup poisoned') \ (held \cup poisoned) : l[1] = c
             /\ \A f \in File : saved'[f] # saved[f] => saved'[f].group = c
             /\ Sent("GetCookiesForUrl") =>
                  LastSent.val = cookies_for_url(cookie_jar[c], Msg.url, Msg.source)
             /\ Sent("GetCookiesDataForUrl") =>
                  LastSent.val = cookies_data_for_url(cookie_jar[c], Msg.url, Msg.source)
      ]_vars

\* A Fetch that came on the private channel runs on the private group: its
\* worker stored a cookie in the private jar and the public jar is empty.
C15_Witness ==
    /\ \E w \in workers : w.chan = "private" /\ w.kind = "fetch"
    /\ WorkerCookie \in cookie_jar["private"]
    /\ cookie_jar["public"] = {}

\* The value of a cache now, and after the step.
CacheOf(g, fld) ==
    IF fld = "cookie_jar" THEN cookie_jar[g]
    ELSE IF fld = "auth_cache" THEN auth_cache[g]
    ELSE hsts_list[g]
CacheNext(g, fld) ==
    IF fld = "cookie_jar" THEN cookie_jar'[g]
    ELSE IF fld = "auth_cache" THEN auth_cache'[g]
    ELSE hsts_list'[g]
TextOf(g, fld) ==
    IF fld = "cookie_jar" THEN EncodeCookieStorage(cookie_jar[g])
    ELSE IF fld = "auth_cache" THEN EncodeAuthCache(auth_cache[g])
    ELSE EncodeHstsList(hsts_list[g])

\* C16: persistence at Exit reads a snapshot under lock. While the Exit
\* arm serializes a cache of group g into its file, the manager holds that
\* cache's lock and no step changes the cache, so a file that is written
\* holds the encoding of the value the cache had when the lock was taken;
\* and no cache is ever changed while the manager holds its lock or after
\* its lock was poisoned.
C16_SnapshotUnderLock ==
    [][ /\ \A f \in File, g \in Group :
             (exit_pc = WritingPc(f) /\ g = ChannelOf(Head(batch).id)) =>
                /\ <<g, FieldOf(f)>> \in held
                /\ CacheNext(g, FieldOf(f)) = CacheOf(g, FieldOf(f))
                /\ (saved'[f] # saved[f] /\ saved'[f].outcome = "written") =>
                     /\ disk'[f] = FileOf(TextOf(g, FieldOf(f)))
                     /\ saved'[f].data = CacheOf(g, FieldOf(f))
        /\ \A g \in Group, fld \in Field :
             (CacheNext(g, fld) # CacheOf(g, fld) /\ session' = session) =>
                <<g, fld>> \notin held \cup poisoned
      ]_vars

\* The Exit arm holds the lock of the HSTS list of its group while a fetch
\* worker of that group, which has stored its cookie (saved with the jar)
\* and not yet its HSTS host, is still running.
C16_Witness ==
    /\ exit_pc = WritingPc("hsts_list.json")
    /\ held = {<<Grp, "hsts_list">>}
    /\ FetchWorker(Grp, Chan) \in workers
    /\ WorkerHstsHost \notin hsts_list[Grp]
    /\ saved["cookie_jar.json"].outcome = "written"
    /\ WorkerCookie \in saved["cookie_jar.json"].data

\* C17: no lock spans more than one field. The manager thread holds at
\* most one lock at any time, and only inside the arm of the Exit handler
\* that serializes that lock's cache; a worker that wants a lock the
\* manager does not hold is not kept waiting by the one it holds.
C17_OneLockAtATime ==
    /\ Cardinality(held) <= 1
    /\ held # {} =>
         /\ status = "Running" /\ batch # <<>>
         /\ exit_pc \in {WritingPc(f) : f \in File}
         /\ held = {<<Grp, FieldOf(FileAt(exit_pc))>>}
    /\ \A w \in workers : \A fld \in WorkerFields(w) :
         <<w.group, fld>> \notin held => ENABLED WorkerWrite(w, fld)

\* The Exit arm has written the auth cache and released its lock, and
\* holds the lock of the cookie jar alone, with a worker of the group
\* running.
C17_Witness ==
    /\ held = {<<"public", "cookie_jar">>}
    /\ saved["auth_cache.json"].outcome = "written"
    /\ saved["auth_cache.json"].session = session
    /\ FetchWorker("public", "public") \in workers

\* C18: public group construction. After a manager has started, its public
\* HSTS list is the preload overlaid with the entries of hsts_list.json
\* when a directory is configured and the file decodes, so that the
\* preload entries are still there, and exactly the preload without a
\* directory or when the file is absent or does not decode; the private
\* jar, auth cache and HSTS list are empty.
C18_PreloadOverlay ==
    [][ (session' = session + 1 /\ status' = "Running") =>
          /\ hsts_list'["public"] =
               IF config_dir /\ disk["hsts_list.json"].exists
                  /\ DecodeHstsList(disk["hsts_list.json"].text).ok
               THEN from_servo_preload \cup DecodeHstsList(disk["hsts_list.json"].text).data
               ELSE from_servo_preload
          /\ cookie_jar'["private"] = NewCookieStorage
          /\ auth_cache'["private"] = NewAuthCache
          /\ hsts_list'["private"] = NewHstsList
      ]_vars

\* The place of a file in the order of the Exit arm, and what an Exit of
\* the running manager has done with it.
Place(f) == IF f = "auth_cache.json" THEN 1 ELSE IF f = "cookie_jar.json" THEN 2 ELSE 3
Did(f) == IF saved[f].outcome # "none" /\ saved[f].session = session
          THEN saved[f].outcome ELSE "none"

\* C19: a failure to create or to write a file at Exit is fatal: the
\* manager thread panics at that write, the files that come later in the
\* order are not attempted and the acknowledgment is never sent; an
\* encoding failure or a poisoned lock only skips that file, which stays
\* as it was, and the Exit arm goes on with the next file, so that its
\* acknowledgment finds every other file attempted.
C19_WriteFailureIsFatal ==
    [][ /\ \A f \in File :
             (saved'[f] # saved[f] /\ session' = session) =>
                /\ saved'[f].outcome \in {"not_created", "not_written"} =>
                     /\ status' = "Panicked" /\ panic_cause' = "write_file"
                     /\ replies' = replies
                /\ saved'[f].outcome \in {"not_encoded", "poisoned"} =>
                     /\ disk' = disk
                     /\ status' = "Running"
                     /\ exit_pc' = NextFile(f)
                     /\ batch' = batch
        /\ (status = "Panicked" /\ panic_cause = "write_file") =>
             /\ Sends("Exit") = {}
             /\ \E f \in File :
                  /\ Did(f) \in {"not_created", "not_written"}
                  /\ \A l \in File : Place(l) > Place(f) => Did(l) = "none"
             /\ session' = session => UNCHANGED <<status, disk, replies, saved, n_done>>
        /\ (Sends("Exit") # {} /\ config_dir) =>
             \A f \in File : Did(f) \in {"written", "not_encoded", "poisoned"}
      ]_vars

\* The Exit arm skipped the auth cache, whose encoding failed and whose
\* earlier file is untouched, wrote the cookie jar, and panicked on the
\* creation of hsts_list.json: no acknowledgment was sent.
C19_Witness ==
    /\ status = "Panicked" /\ panic_cause = "write_file"
    /\ Did("auth_cache.json") = "not_encoded"
    /\ disk["auth_cache.json"] = SavedDisk["auth_cache.json"]
    /\ Did("cookie_jar.json") = "written"
    /\ Did("hsts_list.json") = "not_created"
    /\ replies = <<>>

\* A select has returned the closure of a channel, and the loop has come
\* to that event.
ClosureReceived == \E i \in DOMAIN batch : batch[i].data.body = ChannelClosed
AtClosure ==
    /\ status = "Running" /\ batch # <<>>
    /\ Head(batch).data.body = ChannelClosed

\* C20 as claimed: the loop aborts on the select that follows the closure
\* of a channel: once a select has returned a closure, no file is written,
\* no Exit is acknowledged and the loop does not stop normally.
C20_ClosureAbortsSelect ==
    [][ ClosureReceived =>
          /\ disk' = disk
          /\ Len(replies') > Len(replies) => replies'[Len(replies')].type # "Exit"
          /\ status' # "Stopped"
      ]_vars

\* C20 as amended: the loop aborts when it comes to the closure event
\* among the events a select returned. At that event the thread panics
\* and nothing else happens; after it the manager handles nothing, writes
\* no file and sends nothing, on either channel; it never runs past a
\* closure event.
C20_ClosureIsFatal ==
    [][ /\ AtClosure =>
             /\ UNCHANGED <<replies, signals, disk, saved, caches, n_done>>
             /\ batch' # batch =>
                  /\ status' = "Panicked" /\ panic_cause' = "channel_closed"
        /\ (panic_cause = "channel_closed" /\ session' = session) =>
             /\ status' = "Panicked"
             /\ UNCHANGED <<replies, signals, disk, saved, caches, n_done, batch>>
      ]_vars

\* The loop served one datum of a channel and panicked on the closure of
\* the other channel, with a later datum of the open channel never served.
C20_Witness ==
    /\ status = "Panicked" /\ panic_cause = "channel_closed"
    /\ \E c \in Group : /\ n_done[c] = 1 /\ chan[c] # <<>>
                        /\ chan[c][1].body # ChannelClosed

\* The loop is at an event whose datum does not deserialize.
AtUndecodable ==
    /\ status = "Running" /\ exit_pc = "idle" /\ batch # <<>>
    /\ ~to(Head(batch).data.body).ok

\* C21: a datum that does not deserialize into a CoreResourceMsg is
\* skipped. The step in which the loop leaves such an event replies and
\* signals nothing and changes neither the mediator, the registry, a
\* cache, a lock nor a file; it leaves the loop Running, with the events
\* behind it in the batch and the data of both channels as they were, to
\* be handled next.
C21_UndecodableIsSkipped ==
    [][ (AtUndecodable /\ batch' # batch) =>
          /\ UNCHANGED <<manager, caches, poisoned, held, replies, signals, disk,
                         saved, status, panic_cause, exit_pc, workers, chan>>
          /\ batch' = Tail(batch)
          /\ n_done' = [n_done EXCEPT ![ChannelOf(Head(batch).id)] = @ + 1]
      ]_vars

\* The first datum of a channel left no mediator, no cookie and no reply,
\* and did not touch the registry: it did not deserialize. The
\* GetCookiesForUrl sent after it on that channel was answered.
C21_Witness ==
    /\ status = "Running"
    /\ swmanager_chan = None /\ cancel_load_map = {"r1"}
    /\ cookie_jar = [g \in Group |-> NewCookieStorage]
    /\ Len(replies) = 1
    /\ replies[1].type = "GetCookiesForUrl" /\ replies[1].delivered
    /\ replies[1].seq = 2 /\ replies[1].done[replies[1].chan] = 1
    /\ replies[1].val = None

====
